---- MODULE Spec2Model ----
(***************************************************************************)
(* State-machine model of tracker_app.py: create_tracker and run_tracking. *)
(* One action per statement group of run_tracking; the OpenCV calls        *)
(* (VideoCapture, selectROI, tracker factories, init, update,              *)
(* matchTemplate, waitKey) are the environment and their results are drawn *)
(* from small sets.                                                        *)
(***************************************************************************)
EXTENDS Integers, Sequences, FiniteSets, TLC

\* ---------------------------------------------------------------- bounds
MaxFrames == 4
MaxMethods == 2

\* Method names run_tracking may be handed: the four CLI choices and one
\* name create_tracker does not know.
MethodNames == {"template", "csrt", "kcf", "mosse", "goturn"}

\* Confidences (max_val) in hundredths: 0.40, 0.50, 0.90.
Confs == {40, 50, 90}

\* Regions in tenths of a pixel: <<x, y, w, h>>.
BBoxes == { <<100, 100, 0, 50>>, <<100, 100, 5, 50>>, <<100, 100, 200, -10>>,
            <<100, 100, 15, 300>> }

\* Selections cv2.selectROI can return (whole pixels).
ROIs == { <<0, 0, 0, 0>>, <<10, 10, 0, 5>>, <<10, 10, 5, 0>>, <<10, 10, 20, 30>> }

\* Raw return values of cv2.waitKey: no key, ESC, 'q'.
RawKeys == {-1, 27, 113}

\* ------------------------------------------------------- program constants
\* threshold = 0.5, in hundredths
threshold == 50
KEY_ESC == 27
ORD_q == 113

VARIABLES pc, methods, cap, ok, init_bbox, use_template, trackers, lost,
          survival, m_idx, total_frames, max_val, it, bbox, key, out,
          env, matchLog, calls

vars == <<pc, methods, cap, ok, init_bbox, use_template, trackers, lost,
          survival, m_idx, total_frames, max_val, it, bbox, key, out,
          env, matchLog, calls>>

\* ------------------------------------------------------------ python dicts
\* A dict is the sequence of its items in insertion order.
DictKeys(d) == { d[j].k : j \in 1..Len(d) }

DictHas(d, name) == name \in DictKeys(d)

DictGet(d, name) == d[CHOOSE j \in 1..Len(d) : d[j].k = name].v

\* d.get(name, default)
DictGetDefault(d, name, default) ==
    IF DictHas(d, name) THEN DictGet(d, name) ELSE default

\* DictSet_front: a new key is put in front of the others.
DictSet_front(d, name, value) ==
    IF DictHas(d, name)
    THEN [j \in 1..Len(d) |-> IF d[j].k = name THEN [k |-> name, v |-> value] ELSE d[j]]
    ELSE <<[k |-> name, v |-> value]>> \o d

\* d[name] = value: an existing key keeps its position.
DictSet(d, name, value) ==
    IF DictHas(d, name)
    THEN [j \in 1..Len(d) |-> IF d[j].k = name THEN [k |-> name, v |-> value] ELSE d[j]]
    ELSE Append(d, [k |-> name, v |-> value])

\* ------------------------------------------------------------ print lines
Line(kind, name, a, b) == [kind |-> kind, name |-> name, a |-> a, b |-> b]

\* --------------------------------------------------------- create_tracker
\* str.lower on the names the model uses.
Lower(s) ==
    CASE s = "CSRT" -> "csrt"
      [] s = "KCF" -> "kcf"
      [] s = "MOSSE" -> "mosse"
      [] OTHER -> s

\* The factory name create_tracker looks up, or "" for an unknown type.
FactoryName(tracker_type) ==
    CASE Lower(tracker_type) = "csrt" -> "TrackerCSRT_create"
      [] Lower(tracker_type) = "kcf" -> "TrackerKCF_create"
      [] Lower(tracker_type) = "mosse" -> "TrackerMOSSE_create"
      [] OTHER -> ""

\* create_tracker(tracker_type): a tracker, or the exception it raises.
\* available: whether cv2.legacy or cv2 has the factory.
create_tracker(tracker_type, available) ==
    IF FactoryName(tracker_type) = "" THEN "ValueError"
    ELSE IF available THEN "tracker"
    ELSE "AttributeError"

\* What the OpenCV build does for one built-in method on the first frame.
Outcomes == {"absent", "init_raises", "init_false", "init_ok"}

\* int(v) for v in tenths: truncation toward zero.
int(v) == IF v >= 0 THEN v \div 10 ELSE -((-v) \div 10)

\* Results tracker.update can report.
UpdateResults ==
    { [ok |-> FALSE, bbox |-> <<100, 100, 15, 300>>] }
    \cup { [ok |-> TRUE, bbox |-> b] : b \in BBoxes }

\* ------------------------------------------------------------------- Init
SeqsUpTo(S, n) == UNION { [1..len -> S] : len \in 0..n }

Init ==
    /\ pc = "open"
    /\ methods \in SeqsUpTo(MethodNames, MaxMethods)
    /\ cap = [opened |-> FALSE, pos |-> 0, released |-> FALSE]
    /\ ok = FALSE
    /\ init_bbox = <<0, 0, 0, 0>>
    /\ use_template = FALSE
    /\ trackers = <<>>
    /\ lost = <<>>
    /\ survival = <<>>
    /\ m_idx = 1
    /\ total_frames = 0
    /\ max_val = 0
    /\ it = 1
    /\ bbox = <<0, 0, 0, 0>>
    /\ key = 255
    /\ out = <<>>
    /\ env = [m \in MethodNames |-> "unset"]
    /\ matchLog = <<>>
    /\ calls = <<>>

\* ---------------------------------------------------------------- actions
\* cap = cv2.VideoCapture(video_path); if not cap.isOpened(): return
Open ==
    /\ pc = "open"
    /\ \E o \in BOOLEAN :
        /\ cap' = [cap EXCEPT !.opened = o]
        /\ IF o
           THEN /\ pc' = "read_first"
                /\ out' = out
           ELSE /\ pc' = "returned"
                /\ out' = Append(out, Line("ERROR", "open", 0, 0))
    /\ UNCHANGED <<methods, ok, init_bbox, use_template, trackers, lost,
                   survival, m_idx, total_frames, max_val, it, bbox, key,
                   env, matchLog, calls>>

\* ReadFirst_unchecked: the result of the first read is not tested.
ReadFirst_unchecked ==
    /\ pc = "read_first"
    /\ \E r \in BOOLEAN :
        /\ ok' = r
        /\ cap' = IF r THEN [cap EXCEPT !.pos = cap.pos + 1] ELSE cap
        /\ pc' = "select_roi"
        /\ out' = out
    /\ UNCHANGED <<methods, init_bbox, use_template, trackers, lost,
                   survival, m_idx, total_frames, max_val, it, bbox, key,
                   env, matchLog, calls>>

\* ok, first_frame = cap.read(); if not ok: return
ReadFirst ==
    /\ pc = "read_first"
    /\ \E r \in BOOLEAN :
        /\ ok' = r
        /\ IF r
           THEN /\ cap' = [cap EXCEPT !.pos = cap.pos + 1]
                /\ pc' = "select_roi"
                /\ out' = out
           ELSE /\ cap' = cap
                /\ pc' = "returned"
                /\ out' = Append(out, Line("ERROR", "first_frame", 0, 0))
    /\ UNCHANGED <<methods, init_bbox, use_template, trackers, lost,
                   survival, m_idx, total_frames, max_val, it, bbox, key,
                   env, matchLog, calls>>

\* if w == 0 or h == 0
EmptyROI_and(r) == r[3] = 0 /\ r[4] = 0

EmptyROI(r) == r[3] = 0 \/ r[4] = 0

\* init_bbox = cv2.selectROI(...); x, y, w, h = init_bbox; empty: return
SelectROI ==
    /\ pc = "select_roi"
    /\ \E r \in ROIs :
        /\ init_bbox' = r
        /\ IF EmptyROI(r)
           THEN /\ pc' = "returned"
                /\ out' = Append(out, Line("ERROR", "roi", 0, 0))
           ELSE /\ pc' = "init_template"
                /\ out' = out
    /\ UNCHANGED <<methods, cap, ok, use_template, trackers, lost,
                   survival, m_idx, total_frames, max_val, it, bbox, key,
                   env, matchLog, calls>>

\* trackers = {}; lost = {}; survival = {}; the template pseudo entry.
InitTemplate ==
    /\ pc = "init_template"
    /\ use_template' = (\E j \in 1..Len(methods) : methods[j] = "template")
    /\ IF use_template'
       THEN /\ trackers' = DictSet(<<>>, "template", "None")
            /\ lost' = DictSet(<<>>, "template", FALSE)
            /\ survival' = DictSet(<<>>, "template", 0)
       ELSE /\ trackers' = <<>>
            /\ lost' = <<>>
            /\ survival' = <<>>
    /\ m_idx' = 1
    /\ pc' = IF Len(methods) = 0 THEN "check" ELSE "init_loop"
    /\ UNCHANGED <<methods, cap, ok, init_bbox, total_frames, max_val, it,
                   bbox, key, out, env, matchLog, calls>>

\* One pass of "for m in methods": template is skipped, a built-in method is
\* created and initialized inside try/except.
\* TryResult: what the try block does for an OpenCV outcome e.
TryResult_swallow(m, e) ==
    IF create_tracker(m, e # "absent") # "tracker" THEN create_tracker(m, e # "absent")
    ELSE "initialized"

TryResult(m, e) ==
    IF create_tracker(m, e # "absent") # "tracker" THEN create_tracker(m, e # "absent")
    ELSE IF e = "init_raises" THEN "cv2.error"
    ELSE "initialized"

\* The build answers the same way every time the same method is asked for.
EnvAnswers(m) ==
    IF FactoryName(m) = "" THEN {"absent"}
    ELSE IF env[m] = "unset" THEN Outcomes
    ELSE {env[m]}

InitBuiltin ==
    /\ pc = "init_loop"
    /\ m_idx <= Len(methods)
    /\ LET m == methods[m_idx] IN
        IF m = "template"
        THEN UNCHANGED <<trackers, lost, survival, out, env>>
        ELSE \E e \in EnvAnswers(m) :
            /\ env' = IF FactoryName(m) = "" THEN env ELSE [env EXCEPT ![m] = e]
            /\ IF TryResult(m, e) = "initialized"
               THEN /\ trackers' = DictSet(trackers, m, "tracker")
                    /\ lost' = DictSet(lost, m, FALSE)
                    /\ survival' = DictSet(survival, m, 0)
                    /\ out' = Append(out, Line("INFO", m, 0, 0))
               ELSE /\ out' = Append(out, Line("WARN", m, 0, 0))
                    /\ UNCHANGED <<trackers, lost, survival>>
    /\ m_idx' = m_idx + 1
    /\ pc' = IF m_idx = Len(methods) THEN "check" ELSE "init_loop"
    /\ UNCHANGED <<methods, cap, ok, init_bbox, use_template, total_frames,
                   max_val, it, bbox, key, matchLog, calls>>

\* The answers the build has given so far; nothing asks again once the
\* "for m in methods" loop is over.
NoAnswers == [m \in MethodNames |-> "unset"]

\* if not trackers: return; total_frames = 0
NoTrackers_never == FALSE

NoTrackers == Len(trackers) = 0

CheckTrackers ==
    /\ pc = "check"
    /\ IF NoTrackers
       THEN /\ pc' = "returned"
            /\ out' = Append(out, Line("ERROR", "no_trackers", 0, 0))
       ELSE /\ pc' = "read"
            /\ out' = out
    /\ total_frames' = 0
    /\ env' = NoAnswers
    /\ UNCHANGED <<methods, cap, ok, init_bbox, use_template, trackers, lost,
                   survival, m_idx, max_val, it, bbox, key, matchLog,
                   calls>>

\* Loop head: ok, frame = cap.read(); if not ok: break; total_frames += 1
Counted_forgot(n) == n

Counted(n) == n + 1

\* ReadFrame_spin: a failed read goes round the loop again.
ReadFrame_spin ==
    /\ pc = "read"
    /\ \E r \in BOOLEAN :
        /\ r => cap.pos <= MaxFrames
        /\ ok' = r
        /\ IF r
           THEN /\ cap' = [cap EXCEPT !.pos = cap.pos + 1]
                /\ total_frames' = Counted(total_frames)
                /\ calls' = <<>>
                /\ pc' = "template"
           ELSE /\ pc' = "read"
                /\ UNCHANGED <<cap, total_frames, calls>>
    /\ UNCHANGED <<methods, init_bbox, use_template, trackers, lost,
                   survival, m_idx, max_val, it, bbox, key, out, env,
                   matchLog>>

ReadFrame ==
    /\ pc = "read"
    /\ \E r \in BOOLEAN :
        /\ r => cap.pos <= MaxFrames
        /\ ok' = r
        /\ IF r
           THEN /\ cap' = [cap EXCEPT !.pos = cap.pos + 1]
                /\ total_frames' = Counted(total_frames)
                /\ calls' = <<>>
                /\ pc' = "template"
           ELSE /\ pc' = "release"
                /\ UNCHANGED <<cap, total_frames, calls>>
    /\ UNCHANGED <<methods, init_bbox, use_template, trackers, lost,
                   survival, m_idx, max_val, it, bbox, key, out, env,
                   matchLog>>

\* if use_template and not lost["template"]
TemplateActive_always == use_template

TemplateActive == use_template /\ ~DictGet(lost, "template")

\* if max_val < threshold
BelowThreshold_le(v) == v <= threshold

BelowThreshold(v) == v < threshold

MarkLost(d, name) == DictSet(d, name, TRUE)

Survive_stuck(d, name) == DictSet(d, name, 1)

Survive(d, name) == DictSet(d, name, DictGet(d, name) + 1)

\* The template matching block of one frame.
TemplateStep ==
    /\ pc = "template"
    /\ IF TemplateActive
       THEN \E v \in Confs :
            /\ max_val' = v
            /\ matchLog' = Append(matchLog, v)
            /\ calls' = Append(calls, "template")
            /\ IF BelowThreshold(v)
               THEN /\ lost' = MarkLost(lost, "template")
                    /\ survival' = survival
               ELSE /\ survival' = Survive(survival, "template")
                    /\ lost' = lost
       ELSE UNCHANGED <<max_val, matchLog, calls, lost, survival>>
    /\ it' = 1
    /\ pc' = IF Len(trackers) = 0 THEN "show" ELSE "builtin"
    /\ UNCHANGED <<methods, cap, ok, init_bbox, use_template, trackers,
                   m_idx, total_frames, bbox, key, out, env>>

\* bw <= 0 or bh <= 0, on the int() of the reported region
Degenerate_lt(b) == int(b[3]) < 0 \/ int(b[4]) < 0

Degenerate(b) == int(b[3]) <= 0 \/ int(b[4]) <= 0

\* The two "continue" tests at the top of the for body.
SkipEntry_retry(name) == name = "template"

SkipEntry(name) == name = "template" \/ DictGetDefault(lost, name, TRUE)

\* Body of "for name, tracker in trackers.items()" for one entry.
\* BuiltinBody_reacquire: every entry is updated on every frame and its lost
\* flag follows the latest result.
BuiltinBody_reacquire(name) ==
    IF name = "template"
    THEN UNCHANGED <<ok, bbox, calls, lost, survival>>
    ELSE \E r \in UpdateResults :
        /\ ok' = r.ok
        /\ bbox' = r.bbox
        /\ calls' = Append(calls, name)
        /\ lost' = DictSet(lost, name, ~r.ok \/ Degenerate(r.bbox))
        /\ survival' = IF ~r.ok \/ Degenerate(r.bbox) THEN survival
                       ELSE Survive(survival, name)

\* BuiltinBody_countfirst: survival is incremented before the region is
\* looked at.
BuiltinBody_countfirst(name) ==
    IF SkipEntry(name)
    THEN UNCHANGED <<ok, bbox, calls, lost, survival>>
    ELSE \E r \in UpdateResults :
        /\ ok' = r.ok
        /\ bbox' = r.bbox
        /\ calls' = Append(calls, name)
        /\ survival' = IF r.ok THEN Survive(survival, name) ELSE survival
        /\ lost' = IF ~r.ok \/ Degenerate(r.bbox) THEN MarkLost(lost, name)
                   ELSE lost

BuiltinBody(name) ==
    IF SkipEntry(name)
    THEN UNCHANGED <<ok, bbox, calls, lost, survival>>
    ELSE \E r \in UpdateResults :
        /\ ok' = r.ok
        /\ bbox' = r.bbox
        /\ calls' = Append(calls, name)
        /\ IF ~r.ok \/ Degenerate(r.bbox)
           THEN /\ lost' = MarkLost(lost, name)
                /\ survival' = survival
           ELSE /\ survival' = Survive(survival, name)
                /\ lost' = lost

\* BuiltinStep_break: an entry that is lost ends the for loop of the frame.
BuiltinStep_break ==
    /\ pc = "builtin"
    /\ it <= Len(trackers)
    /\ BuiltinBody(trackers[it].k)
    /\ it' = it + 1
    /\ pc' = IF it = Len(trackers) \/ lost' # lost THEN "show" ELSE "builtin"
    /\ UNCHANGED <<methods, cap, init_bbox, use_template, trackers, m_idx,
                   total_frames, max_val, key, out, env, matchLog>>

BuiltinStep ==
    /\ pc = "builtin"
    /\ it <= Len(trackers)
    /\ BuiltinBody(trackers[it].k)
    /\ it' = it + 1
    /\ pc' = IF it = Len(trackers) THEN "show" ELSE "builtin"
    /\ UNCHANGED <<methods, cap, init_bbox, use_template, trackers, m_idx,
                   total_frames, max_val, key, out, env, matchLog>>

\* key = cv2.waitKey(30) & 0xFF
Mask(raw) == raw % 256

\* if key == 27 or key == ord('q'): break
IsQuit_idle(k) ==
    \/ k = KEY_ESC
    \/ k = ORD_q
    \/ \A j \in 1..Len(lost) : lost[j].v

IsQuit(k) == k = KEY_ESC \/ k = ORD_q

\* Show_return: the quit key returns from run_tracking instead of leaving
\* the loop.
Show_return ==
    /\ pc = "show"
    /\ \E raw \in RawKeys :
        /\ key' = Mask(raw)
        /\ pc' = IF IsQuit(Mask(raw)) THEN "returned" ELSE "read"
    /\ UNCHANGED <<methods, cap, ok, init_bbox, use_template, trackers, lost,
                   survival, m_idx, total_frames, max_val, it, bbox, out,
                   env, matchLog, calls>>

Show ==
    /\ pc = "show"
    /\ \E raw \in RawKeys :
        /\ key' = Mask(raw)
        /\ pc' = IF IsQuit(Mask(raw)) THEN "release" ELSE "read"
    /\ UNCHANGED <<methods, cap, ok, init_bbox, use_template, trackers, lost,
                   survival, m_idx, total_frames, max_val, it, bbox, out,
                   env, matchLog, calls>>

\* SummaryLines_active: entries that were lost are left out of the report.
SummaryLines_active ==
    <<Line("HEADER", "", 0, 0), Line("TOTAL", "", total_frames, 0)>>
    \o SelectSeq([j \in 1..Len(survival) |->
                    Line("SURVIVED", survival[j].k, survival[j].v, total_frames)],
                 LAMBDA l : ~DictGet(lost, l.name))

\* The summary lines: the total, then one line per key of survival.
SummaryLines ==
    <<Line("HEADER", "", 0, 0), Line("TOTAL", "", total_frames, 0)>>
    \o [j \in 1..Len(survival) |->
            Line("SURVIVED", survival[j].k, survival[j].v, total_frames)]

\* cap.release(); cv2.destroyAllWindows(); print the summary
Finish ==
    /\ pc = "release"
    /\ cap' = [cap EXCEPT !.released = TRUE]
    /\ out' = out \o SummaryLines
    /\ pc' = "done"
    /\ UNCHANGED <<methods, ok, init_bbox, use_template, trackers, lost,
                   survival, m_idx, total_frames, max_val, it, bbox, key,
                   env, matchLog, calls>>

Next ==
    \/ Open
    \/ ReadFirst
    \/ SelectROI
    \/ InitTemplate
    \/ InitBuiltin
    \/ CheckTrackers
    \/ ReadFrame
    \/ TemplateStep
    \/ BuiltinStep
    \/ Show
    \/ Finish

Spec == Init /\ [][Next]_vars

\* run_tracking is one thread that keeps executing until it returns.
\* Termination is explored for requests over template and two built-in
\* methods.
FairNames == {"template", "csrt", "kcf"}

FairInit == Init /\ \A j \in 1..Len(methods) : methods[j] \in FairNames

FairSpec == FairInit /\ [][Next]_vars /\ WF_vars(Next)

TypeOK ==
    /\ pc \in {"open", "read_first", "select_roi", "init_template", "init_loop",
               "check", "read", "template", "builtin", "show", "release",
               "done", "returned"}
    /\ total_frames \in 0..(MaxFrames + 1)
    /\ DictKeys(trackers) = DictKeys(lost)
    /\ DictKeys(lost) = DictKeys(survival)

\* ----------------------------------------------------------------- claims
IsLost(d, name) == DictHas(d, name) /\ DictGet(d, name)

LoopPcs == {"read", "template", "builtin", "show", "release", "done"}

\* C1: once lost[name] is True it is True in every later state of the
\* session: no step sets a lost flag back to False.
C1_LossPermanent ==
    [][\A name \in MethodNames : IsLost(lost, name) => IsLost(lost', name)]_vars

\* An entry lost on an earlier frame, seen after a later frame was processed.
C1_Witness ==
    /\ pc = "show"
    /\ \E name \in MethodNames :
        /\ IsLost(lost, name)
        /\ total_frames >= DictGet(survival, name) + 2

\* C2: survival[name] <= total_frames for every entry, in every state of
\* the frame loop and on every line of the summary.
C2_SurvivalBounded ==
    /\ \A j \in 1..Len(survival) : survival[j].v <= total_frames
    /\ \A j \in 1..Len(out) : out[j].kind = "SURVIVED" => out[j].a <= out[j].b

\* A summary with an entry that survived every frame and one that did not.
C2_Witness ==
    /\ pc = "done"
    /\ total_frames >= 2
    /\ \E j \in 1..Len(out) :
        out[j].kind = "SURVIVED" /\ out[j].a = total_frames
    /\ \E j \in 1..Len(out) :
        out[j].kind = "SURVIVED" /\ out[j].a < total_frames

\* C3: an entry already marked lost is skipped: no step calls its update
\* (or the matcher, for template) and its survival count does not change.
C3_LostSkipped ==
    [][\A name \in MethodNames : IsLost(lost, name) =>
          /\ DictHas(survival', name)
          /\ DictGet(survival', name) = DictGet(survival, name)
          /\ Len(calls') = Len(calls) + 1 => calls'[Len(calls')] # name
          /\ name = "template" => matchLog' = matchLog]_vars

\* Two frames after an entry was lost, another entry is still being updated
\* and the lost one is not among the calls of the frame.
C3_Witness ==
    /\ pc = "show"
    /\ \E name \in MethodNames :
        /\ IsLost(lost, name)
        /\ total_frames >= DictGet(survival, name) + 2
        /\ Len(calls) > 0
        /\ \A j \in 1..Len(calls) : calls[j] # name

\* Length of the longest prefix of log whose confidences are all >= 0.5.
RECURSIVE GoodPrefix(_)
GoodPrefix(log) ==
    IF log = <<>> \/ Head(log) < 50 THEN 0 ELSE 1 + GoodPrefix(Tail(log))

\* C4: each run of the matcher marks template lost when the confidence is
\* below 0.5 and otherwise (0.5 included) adds 1 to its survival count; the
\* matcher runs on every frame while template is not lost; so the survival
\* count is the length of the longest prefix of confidences all >= 0.5.
C4_TemplatePolicy ==
    /\ [][matchLog' # matchLog =>
            /\ ~IsLost(lost, "template")
            /\ matchLog' = Append(matchLog, max_val')
            /\ IF max_val' < 50
               THEN /\ IsLost(lost', "template")
                    /\ DictGet(survival', "template") = DictGet(survival, "template")
               ELSE /\ ~IsLost(lost', "template")
                    /\ DictGet(survival', "template") = DictGet(survival, "template") + 1]_vars
    /\ [][(pc = "template" /\ DictHas(lost, "template") /\ ~IsLost(lost, "template"))
            => matchLog' # matchLog]_vars
    /\ [](DictHas(survival, "template") =>
            /\ DictGet(survival, "template") = GoodPrefix(matchLog)
            /\ IsLost(lost, "template") <=> (\E j \in 1..Len(matchLog) : matchLog[j] < 50))

\* The confidences 0.9, 0.5, 0.4 and a fourth frame: survival 2, lost at
\* frame 3, the matcher not run on frame 4.
C4_Witness ==
    /\ pc = "done"
    /\ total_frames = 4
    /\ matchLog = <<90, 50, 40>>
    /\ IsLost(lost, "template")
    /\ DictGet(survival, "template") = 2

\* A step in which tracker.update was called for a built-in entry.
Updated(name) ==
    /\ name # "template"
    /\ Len(calls') = Len(calls) + 1
    /\ calls'[Len(calls')] = name

\* A built-in entry that is present and not lost is updated when its turn
\* in the for loop comes.
TurnOf(name) ==
    /\ pc = "builtin"
    /\ it <= Len(trackers)
    /\ trackers[it].k = name
    /\ name # "template"
    /\ DictHas(lost, name)
    /\ ~DictGet(lost, name)

\* C5 as stated: a built-in entry is marked lost exactly when update reports
\* failure or a width or height <= 0, without a survival increment; in
\* every other case, non-integer regions included, it survives the frame.
C5_AsStated ==
    [][\A name \in MethodNames :
        /\ TurnOf(name) => Updated(name)
        /\ Updated(name) =>
            IF ~ok' \/ bbox'[3] <= 0 \/ bbox'[4] <= 0
            THEN /\ IsLost(lost', name)
                 /\ DictGet(survival', name) = DictGet(survival, name)
            ELSE /\ ~IsLost(lost', name)
                 /\ DictGet(survival', name) = DictGet(survival, name) + 1]_vars

\* C5 amended: the entry is marked lost exactly when update reports failure
\* or a width or height below one pixel (int() of it is <= 0), without a
\* survival increment; otherwise it survives the frame with one increment.
C5_BuiltinPolicy ==
    [][\A name \in MethodNames :
        /\ TurnOf(name) => Updated(name)
        /\ Updated(name) =>
            IF ~ok' \/ bbox'[3] < 10 \/ bbox'[4] < 10
            THEN /\ IsLost(lost', name)
                 /\ DictGet(survival', name) = DictGet(survival, name)
            ELSE /\ ~IsLost(lost', name)
                 /\ DictGet(survival', name) = DictGet(survival, name) + 1]_vars

\* update has just returned (True, (10, 10, 0, 5)) for an entry that had
\* survived one frame: it is lost and its count is still 1.
C5_Witness ==
    /\ pc \in {"builtin", "show"}
    /\ ok
    /\ bbox = <<100, 100, 0, 50>>
    /\ total_frames = 2
    /\ \E name \in MethodNames \ {"template"} :
        /\ Len(calls) > 0
        /\ calls[Len(calls)] = name
        /\ IsLost(lost, name)
        /\ DictGet(survival, name) = 1

HasLine(kind, name) ==
    \E j \in 1..Len(out) : out[j].kind = kind /\ out[j].name = name

\* The methods the "for m in methods" loop has already gone through.
Attempted ==
    IF pc \in {"open", "read_first", "select_roi", "init_template", "returned"}
       /\ ~HasLine("ERROR", "no_trackers")
    THEN {}
    ELSE { methods[j] : j \in 1..(IF pc = "init_loop" THEN m_idx - 1 ELSE Len(methods)) }

\* C6: a built-in method whose construction or init raises gets a warning
\* and no entry in trackers, lost or survival, is never updated and has no
\* summary line; every other attempted method is initialized and reported.
C6_FailedInitExcluded ==
    /\ \A m \in Attempted \ {"template"} :
        /\ (FactoryName(m) = "" \/ env[m] \in {"absent", "init_raises"})
            /\ pc \in {"init_loop", "check"} => HasLine("WARN", m)
        /\ env[m] = "init_ok" => HasLine("INFO", m)
        /\ HasLine("WARN", m) \/ HasLine("INFO", m)
        /\ HasLine("WARN", m) =>
            /\ ~DictHas(trackers, m)
            /\ ~DictHas(lost, m)
            /\ ~DictHas(survival, m)
            /\ \A j \in 1..Len(calls) : calls[j] # m
            /\ ~HasLine("SURVIVED", m)
        /\ HasLine("INFO", m) =>
            /\ DictHas(trackers, m)
            /\ DictHas(lost, m)
            /\ DictHas(survival, m)
            /\ pc = "done" => HasLine("SURVIVED", m)

\* One method failed with a warning, another was initialized, survived a
\* frame and is in the summary.
C6_Witness ==
    /\ pc = "done"
    /\ \E m1, m2 \in MethodNames \ {"template", "goturn"} :
        /\ HasLine("WARN", m1)
        /\ ~HasLine("SURVIVED", m1)
        /\ HasLine("INFO", m2)
        /\ \E j \in 1..Len(out) :
            out[j].kind = "SURVIVED" /\ out[j].name = m2 /\ out[j].a >= 1

\* C7: a built-in tracker whose init reports not-ok without raising is
\* excluded from the session: it has no entry in trackers, lost or survival.
C7_InitFalseExcluded ==
    \A m \in MethodNames :
        env[m] = "init_false" =>
            /\ ~DictHas(trackers, m)
            /\ ~DictHas(lost, m)
            /\ ~DictHas(survival, m)

\* C8: when no entry is left after all requested methods were attempted,
\* run_tracking reports "no valid trackers" and returns: the frame loop is
\* never entered, total_frames stays 0, only the first frame was read and
\* neither update nor the matcher was called.
C8_NoTrackersAbort ==
    /\ pc \in LoopPcs => Len(trackers) > 0
    /\ HasLine("ERROR", "no_trackers") =>
        /\ pc = "returned"
        /\ Len(trackers) = 0
        /\ total_frames = 0
        /\ cap.pos = 1
        /\ calls = <<>>
        /\ matchLog = <<>>
        /\ ~HasLine("TOTAL", "")

\* methods = ["csrt"] and csrt could not be created.
C8_Witness ==
    /\ pc = "returned"
    /\ methods = <<"csrt">>
    /\ HasLine("WARN", "csrt")
    /\ HasLine("ERROR", "no_trackers")
    /\ total_frames = 0

\* C9: after an empty selection (w = 0 or h = 0) run_tracking reports an
\* error and returns with no entry created, no tracker factory asked, no
\* tracker initialized and no frame of the loop read.
C9_EmptyRoiAbort ==
    (cap.pos >= 1 /\ pc # "select_roi" /\ (init_bbox[3] = 0 \/ init_bbox[4] = 0)) =>
        /\ pc = "returned"
        /\ out = <<Line("ERROR", "roi", 0, 0)>>
        /\ trackers = <<>>
        /\ lost = <<>>
        /\ survival = <<>>
        /\ env = NoAnswers
        /\ use_template = FALSE
        /\ total_frames = 0
        /\ cap.pos = 1
        /\ calls = <<>>

\* The selection (10, 10, 0, 5) was returned for a request of two methods.
C9_Witness ==
    /\ pc = "returned"
    /\ init_bbox = <<10, 10, 0, 5>>
    /\ Len(methods) = 2
    /\ HasLine("ERROR", "roi")

AllLost == \A j \in 1..Len(lost) : lost[j].v

\* C10: total_frames goes up by exactly one with every frame the loop
\* reads and at no other step, whatever the lost flags are, and the loop is
\* left only after a failed read or a quit key: never because all entries
\* are lost.
C10_CountEveryFrame ==
    /\ [](pc \in LoopPcs => total_frames = cap.pos - 1)
    /\ [][/\ (pc \in LoopPcs /\ cap.pos' # cap.pos) =>
                (cap.pos' = cap.pos + 1 /\ total_frames' = total_frames + 1)
          /\ (pc \in LoopPcs /\ cap.pos' = cap.pos) => total_frames' = total_frames
          /\ (pc \in {"read", "template", "builtin", "show"} /\ pc' = "release") =>
                \/ pc = "read" /\ ~ok'
                \/ pc = "show" /\ key' \in {27, 113}
          /\ (pc = "show" /\ key' \notin {27, 113}) => pc' = "read"
          /\ (pc = "read" /\ ok') => cap.pos' = cap.pos + 1]_vars

\* Every entry was lost on the first frame and three more frames were read
\* and counted.
C10_Witness ==
    /\ pc = "show"
    /\ Len(lost) = 2
    /\ AllLost
    /\ \A j \in 1..Len(survival) : survival[j].v = 0
    /\ total_frames = 4

\* The loop was left by a failed read, not by the quit key.
Exhausted == pc = "done" /\ key \notin {27, 113}

NoneLost == \A j \in 1..Len(lost) : ~lost[j].v

\* C11 as stated: for a video of N frames (cap.pos frames delivered before
\* the failed read), no entry lost and no quit key, the summary reports
\* total N and survival N for every entry.
C11_AsStated ==
    (Exhausted /\ NoneLost) =>
        /\ total_frames = cap.pos
        /\ \A j \in 1..Len(out) :
            /\ out[j].kind = "TOTAL" => out[j].a = cap.pos
            /\ out[j].kind = "SURVIVED" => (out[j].a = cap.pos /\ out[j].b = cap.pos)

\* C11 amended: the first frame is read for the selection and is not
\* counted, so for a video of N frames the summary reports total N - 1 and
\* survival N - 1 for every entry.
C11_AllSurvive ==
    (Exhausted /\ NoneLost) =>
        /\ total_frames = cap.pos - 1
        /\ HasLine("TOTAL", "")
        /\ \A j \in 1..Len(survival) : HasLine("SURVIVED", survival[j].k)
        /\ \A j \in 1..Len(out) :
            /\ out[j].kind = "TOTAL" => out[j].a = cap.pos - 1
            /\ out[j].kind = "SURVIVED" =>
                (out[j].a = cap.pos - 1 /\ out[j].b = cap.pos - 1)

\* A video of 4 frames, two entries, none lost: total 3 and 3 for each.
C11_Witness ==
    /\ Exhausted
    /\ NoneLost
    /\ cap.pos = 4
    /\ Len(survival) = 2
    /\ \A j \in 1..Len(survival) : survival[j].v = 3

\* Position of the first "Initialized tracker" line of a built-in method.
FirstInfo(m) == CHOOSE j \in 1..Len(out) :
    /\ out[j].kind = "INFO" /\ out[j].name = m
    /\ \A i \in 1..(j - 1) : ~(out[i].kind = "INFO" /\ out[i].name = m)

\* The lines of the report: everything printed from the header on.
Report ==
    IF \E j \in 1..Len(out) : out[j].kind = "HEADER"
    THEN SubSeq(out, CHOOSE j \in 1..Len(out) : out[j].kind = "HEADER", Len(out))
    ELSE <<>>

\* C12: once the loop is over the report is the header, the total, then
\* exactly one line per initialized entry (lost ones included, excluded
\* methods absent), with its final survival count and the total, in
\* initialization order.
C12_Summary ==
    pc = "done" =>
        /\ Len(Report) = 2 + Len(trackers)
        /\ Report[2] = Line("TOTAL", "", total_frames, 0)
        /\ \A j \in 1..Len(trackers) :
            /\ Report[2 + j].kind = "SURVIVED"
            /\ Report[2 + j].name = trackers[j].k
            /\ Report[2 + j].a = DictGet(survival, trackers[j].k)
            /\ Report[2 + j].b = total_frames
        /\ \A m \in MethodNames :
            (\E j \in 3..Len(Report) : Report[j].name = m) <=>
                (HasLine("INFO", m) \/ (m = "template" /\ use_template))
        /\ \A i, j \in 3..Len(Report) :
            (i < j /\ Report[i].name # "template") =>
                /\ Report[j].name # Report[i].name
                /\ Report[j].name # "template"
                /\ FirstInfo(Report[i].name) < FirstInfo(Report[j].name)

\* Two entries, one of them lost, both in the report.
C12_Witness ==
    /\ pc = "done"
    /\ Len(Report) = 4
    /\ \E j \in 1..Len(lost) : lost[j].v
    /\ \E j \in 1..Len(lost) : ~lost[j].v
    /\ total_frames >= 2

\* The entries that were not lost when the current frame was read.
ActiveAtFrameStart ==
    { trackers[j].k : j \in { i \in 1..Len(trackers) :
        \/ ~DictGet(lost, trackers[i].k)
        \/ DictGet(survival, trackers[i].k) = total_frames - 1 } }

\* C13: the quit key is looked at once per frame, after every active entry
\* was updated; on a quit key the frame is counted, no further frame is
\* read and the summary is still printed.
C13_Cancellation ==
    /\ [](pc = "show" =>
            /\ { calls[j] : j \in 1..Len(calls) } = ActiveAtFrameStart
            /\ total_frames = cap.pos - 1)
    /\ [][/\ key' # key => pc = "show"
          /\ pc' = "show" => pc \in {"template", "builtin"}
          /\ pc' = "read" => pc \in {"check", "show"}
          /\ pc = "show" =>
                IF key' \in {27, 113}
                THEN pc' = "release" /\ cap' = cap /\ total_frames' = total_frames
                ELSE pc' = "read"
          /\ pc = "release" =>
                /\ pc' = "done"
                /\ cap'.pos = cap.pos
                /\ total_frames' = total_frames
                /\ Len(out') = Len(out) + 2 + Len(trackers)]_vars
    /\ []((pc = "done" /\ key \in {27, 113}) =>
            /\ total_frames = cap.pos - 1
            /\ total_frames >= 1
            /\ { calls[j] : j \in 1..Len(calls) } = ActiveAtFrameStart
            /\ HasLine("TOTAL", ""))

\* 'q' on the second frame of a longer video: two frames counted, both
\* entries updated on frame 2, summary printed.
C13_Witness ==
    /\ pc = "done"
    /\ key = 113
    /\ total_frames = 2
    /\ cap.pos = 3
    /\ Len(calls) = 2
    /\ HasLine("TOTAL", "")

ErrorCount == Cardinality({ j \in 1..Len(out) : out[j].kind = "ERROR" })

\* C14: each fatal condition (video not opened, first frame not read, empty
\* ROI, no tracker initialized) prints one error and returns: the loop is
\* not entered and nothing of the summary is printed; the conditions are
\* tested in that order, so an earlier one pre-empts the later steps.
C14_FatalConditions ==
    /\ []((pc = "returned") <=> (ErrorCount > 0))
    /\ [](pc = "returned" =>
            /\ ErrorCount = 1
            /\ out[Len(out)].kind = "ERROR"
            /\ ~HasLine("HEADER", "")
            /\ ~HasLine("TOTAL", "")
            /\ \A j \in 1..Len(out) : out[j].kind # "SURVIVED"
            /\ total_frames = 0
            /\ calls = <<>>
            /\ matchLog = <<>>
            /\ HasLine("ERROR", "open") =>
                (~cap.opened /\ cap.pos = 0 /\ Len(out) = 1 /\ trackers = <<>>)
            /\ HasLine("ERROR", "first_frame") =>
                /\ cap.opened /\ cap.pos = 0 /\ Len(out) = 1
                /\ init_bbox = <<0, 0, 0, 0>> /\ trackers = <<>> /\ env = NoAnswers
            /\ HasLine("ERROR", "roi") =>
                /\ cap.opened /\ cap.pos = 1 /\ Len(out) = 1
                /\ (init_bbox[3] = 0 \/ init_bbox[4] = 0)
                /\ trackers = <<>> /\ env = NoAnswers
            /\ HasLine("ERROR", "no_trackers") =>
                /\ cap.opened /\ cap.pos = 1
                /\ init_bbox[3] # 0 /\ init_bbox[4] # 0
                /\ trackers = <<>>)
    /\ [][/\ (pc = "open" /\ ~cap'.opened) =>
                (pc' = "returned" /\ out' = Append(out, Line("ERROR", "open", 0, 0)))
          /\ (pc = "read_first" /\ ~ok') =>
                (pc' = "returned" /\ out' = Append(out, Line("ERROR", "first_frame", 0, 0)))
          /\ (pc = "select_roi" /\ (init_bbox'[3] = 0 \/ init_bbox'[4] = 0)) =>
                (pc' = "returned" /\ out' = Append(out, Line("ERROR", "roi", 0, 0)))
          /\ (pc = "check" /\ Len(trackers) = 0) =>
                (pc' = "returned" /\ out' = Append(out, Line("ERROR", "no_trackers", 0, 0)))]_vars

\* The first frame could not be read: one error, nothing selected.
C14_Witness ==
    /\ pc = "returned"
    /\ out = <<Line("ERROR", "first_frame", 0, 0)>>
    /\ cap.opened
    /\ Len(methods) = 2

\* The keys of trackers that were active when the frame was read, in order.
ActiveSeq ==
    SelectSeq([j \in 1..Len(trackers) |-> trackers[j].k],
              LAMBDA n : n \in ActiveAtFrameStart)

\* C15: a loss is confined to its entry. On every frame every entry that
\* was active is updated, whatever happened to the others; the update of
\* one entry changes the lost flag and survival count of no other entry and
\* not total_frames; an entry's flag and count change only by its own
\* update.
C15_Isolation ==
    /\ [](pc = "show" => calls = ActiveSeq)
    /\ [][\A name \in MethodNames :
            /\ (pc = "template" /\ name = "template" /\ DictHas(lost, name)
                    /\ ~DictGet(lost, name)) => calls' = Append(calls, name)
            /\ TurnOf(name) => calls' = Append(calls, name)
            /\ calls' = Append(calls, name) =>
                /\ total_frames' = total_frames
                /\ Len(lost') = Len(lost)
                /\ Len(survival') = Len(survival)
                /\ \A j \in 1..Len(lost) :
                    lost[j].k # name => (lost'[j] = lost[j] /\ survival'[j] = survival[j])
            /\ (pc \in LoopPcs /\ DictHas(lost, name)
                    /\ (DictGet(lost', name) # DictGet(lost, name)
                        \/ DictGet(survival', name) # DictGet(survival, name)))
                => calls' = Append(calls, name)]_vars

\* On the second frame the first entry was lost and the second one, updated
\* after it, survived.
C15_Witness ==
    /\ pc = "show"
    /\ total_frames = 2
    /\ Len(calls) = 2
    /\ Len(trackers) = 2
    /\ lost[1].v /\ survival[1].v = 1
    /\ ~lost[2].v /\ survival[2].v = 2

\* C16: in one frame an entry's survival count changes by 0 or by 1 (it is
\* updated at most once per frame), by 1 only when the entry is not lost
\* before and after the step, and not at all on the frame it becomes lost.
C16_SurvivalStep ==
    /\ [](\A i, j \in 1..Len(calls) : calls[i] = calls[j] => i = j)
    /\ [][\A name \in MethodNames :
            (DictHas(survival, name) /\ DictHas(survival', name)) =>
                /\ DictGet(survival', name) - DictGet(survival, name) \in {0, 1}
                /\ DictGet(survival', name) # DictGet(survival, name) =>
                    /\ ~DictGet(lost, name)
                    /\ ~DictGet(lost', name)
                    /\ calls' = Append(calls, name)
                /\ (~DictGet(lost, name) /\ DictGet(lost', name)) =>
                    DictGet(survival', name) = DictGet(survival, name)]_vars

\* An entry that survived two frames is lost on the third: its count is 2.
C16_Witness ==
    /\ pc = "show"
    /\ total_frames = 3
    /\ Len(trackers) = 1
    /\ calls = <<trackers[1].k>>
    /\ lost[1].v
    /\ survival[1].v = 2

\* C17: a session that passed initialization always leaves the frame loop
\* and prints the summary, with or without a quit key and whatever the lost
\* flags are; the loop is left at the first failed read.
C17_Terminates ==
    /\ (pc = "read") ~> (pc = "done" /\ HasLine("TOTAL", ""))
    /\ [][(pc = "read" /\ ~ok') => (pc' = "release" /\ cap' = cap)]_vars

\* No key was ever pressed, every entry was lost on the first frame, the
\* stream ended after four frames and the summary is printed.
C17_Witness ==
    /\ pc = "done"
    /\ key = 255
    /\ ~ok
    /\ AllLost
    /\ \A j \in 1..Len(survival) : survival[j].v = 0
    /\ total_frames = 4
    /\ HasLine("TOTAL", "")

\* C18: at the end of every iteration and in the summary, an entry that is
\* not lost has survival = total_frames, a lost one has survival <
\* total_frames, and its count stays what it was when it was lost: the
\* number of frames before its loss frame.
C18_SurvivalExact ==
    /\ [](pc \in {"show", "read", "release", "done"} =>
            /\ \A j \in 1..Len(lost) :
                /\ lost[j].k = survival[j].k
                /\ ~lost[j].v => survival[j].v = total_frames
                /\ lost[j].v => survival[j].v < total_frames
            /\ \A j \in 1..Len(out) :
                out[j].kind = "SURVIVED" =>
                    IF DictGet(lost, out[j].name) THEN out[j].a < out[j].b
                    ELSE out[j].a = out[j].b)
    /\ [][\A name \in MethodNames :
            (DictHas(lost, name) /\ DictHas(lost', name)) =>
                /\ (~DictGet(lost, name) /\ DictGet(lost', name)) =>
                    DictGet(survival', name) = total_frames' - 1
                /\ DictGet(lost, name) =>
                    DictGet(survival', name) = DictGet(survival, name)]_vars

\* After four frames one entry has survived all of them and the other was
\* lost on frame 3 with a count of 2.
C18_Witness ==
    /\ pc = "done"
    /\ total_frames = 4
    /\ \E i, j \in 1..Len(lost) :
        /\ ~lost[i].v /\ survival[i].v = 4
        /\ lost[j].v /\ survival[j].v = 2

\* Position of a key in trackers, of a name in methods.
TrackerPos(name) == CHOOSE j \in 1..Len(trackers) : trackers[j].k = name

FirstRequest(name) == CHOOSE j \in 1..Len(methods) :
    methods[j] = name /\ \A i \in 1..(j - 1) : methods[i] # name

\* C19: when template is requested it is the first entry, the first one
\* updated on every frame and the first one reported, wherever it stands in
\* methods; the initialized built-in entries follow in the order in which
\* they are requested.
C19_Ordering ==
    /\ (pc \in ({"init_loop", "check"} \cup LoopPcs)
            /\ \E j \in 1..Len(methods) : methods[j] = "template")
        => (Len(trackers) > 0 /\ trackers[1].k = "template")
    /\ \A i, j \in 1..Len(trackers) :
        (i < j /\ trackers[i].k # "template") =>
            /\ trackers[j].k # "template"
            /\ FirstRequest(trackers[i].k) < FirstRequest(trackers[j].k)
    /\ \A j \in 1..Len(calls) : calls[j] = "template" => j = 1
    /\ (pc \in {"builtin", "show"} /\ DictHas(lost, "template")
            /\ DictGet(survival, "template") >= total_frames - 1
            /\ Len(calls) > 0)
        => calls[1] = "template"
    /\ \A i, j \in 1..Len(calls) :
        i < j => TrackerPos(calls[i]) < TrackerPos(calls[j])
    /\ pc = "done" =>
        /\ Len(Report) = 2 + Len(trackers)
        /\ \A j \in 1..Len(trackers) : Report[2 + j].name = trackers[j].k

\* methods = ["csrt", "template"]: template is updated and reported before
\* csrt.
C19_Witness ==
    /\ pc = "done"
    /\ methods = <<"csrt", "template">>
    /\ calls = <<"template", "csrt">>
    /\ Report[3].name = "template"
    /\ Report[4].name = "csrt"

\* C20: on every return of run_tracking after the video was opened the
\* capture has been released.
C20_Released ==
    (pc \in {"done", "returned"} /\ cap.opened) => cap.released

====
